---- MODULE Spec2Model ----
(***************************************************************************)
(* A model of scripts/check-contentful-env.js: one run of                  *)
(* checkContentfulEnvironment().  The function is async: the code between  *)
(* two awaits runs as one step, so the run has one step per resumption.    *)
(*                                                                         *)
(* Strings (branch name, search term, environment id and name) are         *)
(* sequences of one-character strings, so that split, join, includes and   *)
(* === are computed, not assumed.  Output lines are records with a kind    *)
(* and the values interpolated into the line; fixed decoration (emoji,     *)
(* rulers, blank lines) is left out.                                       *)
(***************************************************************************)
EXTENDS Integers, Sequences, FiniteSets

VARIABLES
  env,            \* process.env: the three variables the script reads
  memberships,    \* upstream: what "list space memberships" would answer
  pc,             \* where the run is: start, awaitSpace, awaitEnvs, exited
  exitCode,       \* <<>> while the process runs, <<code>> once it has exited
  calls,          \* the upstream SDK calls made so far, in order
  out,            \* console.log lines
  err,            \* console.error lines
  searchName,     \* const searchName
  items,          \* environments.items
  exactMatches,   \* const exactMatches  (object references)
  partialMatches, \* const partialMatches
  allMatches,     \* const allMatches
  error           \* <<>>, or <<e>> once the catch block has caught e

vars == <<env, memberships, pc, exitCode, calls, out, err, searchName, items,
          exactMatches, partialMatches, allMatches, error>>

---------------------------------------------------------------------------
(* Bounds and value pools *)

MaxBranchLen == 3
MaxEnvs == 2

Chars == {"a", "A", "/"}

StringsUpTo(n) == UNION {[1..k -> Chars] : k \in 0..n}

\* The value of a variable that is not set in process.env.
Undefined == <<"undefined">>

\* process.env values: unset, or any string (the empty one included).
EnvValues == {Undefined, <<>>, <<"a">>}
BranchValues == {Undefined} \cup StringsUpTo(MaxBranchLen)

\* A value that is absent (undefined) is the empty sequence, a present one
\* a one-element sequence.
None == <<>>
Some(v) == <<v>>

EnvNames == {<<"a">>, <<"/", "a">>}

Link(id) == [sys |-> [id |-> id, linkType |-> "User"]]

\* The audit metadata of an environment: all absent, or all present.
Audits ==
  { [createdBy |-> None, createdAt |-> "", updatedAt |-> "", updatedBy |-> None],
    [createdBy |-> Some(Link("u1")), createdAt |-> "t1", updatedAt |-> "t2",
     updatedBy |-> Some(Link("u2"))] }

EnvRecords ==
  { [name |-> n,
     sys |-> [id |-> i, createdBy |-> a.createdBy, createdAt |-> a.createdAt,
              updatedAt |-> a.updatedAt, updatedBy |-> a.updatedBy]] :
      i \in EnvNames, n \in EnvNames, a \in Audits }

ItemLists == UNION {[1..k -> EnvRecords] : k \in 0..MaxEnvs}

\* What a rejected SDK call throws: message and response may be absent;
\* status 0 and statusText "" stand for an absent (falsy) field.
Errors ==
  { [message |-> m, response |-> r] :
      m \in {"", "Unauthorized"},
      r \in {None} \cup
            { Some([status |-> st, statusText |-> tx]) :
                st \in {0, 401}, tx \in {"", "Unauthorized"} } }

\* The answers "list space memberships" could give: a failure, or the users
\* of the space.  The script never asks.
MembershipAnswers ==
  { [ok |-> FALSE, users |-> {}],
    [ok |-> TRUE,
     users |-> { [id |-> "u1", firstName |-> "Ada", lastName |-> "Lovelace",
                  email |-> "ada@example.com"],
                 [id |-> "u2", firstName |-> "", lastName |-> "",
                  email |-> "bob@example.com"] }],
    [ok |-> TRUE,
     users |-> { [id |-> "u1", firstName |-> "", lastName |-> "", email |-> ""] }] }

---------------------------------------------------------------------------
(* JavaScript's string and array functions, as the script uses them *)

\* Mutant of Falsy: a test against undefined only, which lets "" through.
FalsyUndefinedOnly(v) == v = Undefined

\* !v for a process.env value: undefined and "" are falsy.
Falsy(v) == v = Undefined \/ v = <<>>

\* toLowerCase
ToLowerCase(s) == [i \in 1..Len(s) |-> IF s[i] = "A" THEN "a" ELSE s[i]]

\* String.prototype.includes
Includes(s, t) ==
  \E k \in 1..(Len(s) - Len(t) + 1) : SubSeq(s, k, k + Len(t) - 1) = t

\* String.prototype.split with a one-character separator
RECURSIVE Split(_, _)
Split(s, sep) ==
  IF \A i \in 1..Len(s) : s[i] # sep
  THEN <<s>>
  ELSE LET i == CHOOSE j \in 1..Len(s) :
                  s[j] = sep /\ \A h \in 1..(j - 1) : s[h] # sep
       IN  <<SubSeq(s, 1, i - 1)>> \o Split(SubSeq(s, i + 1, Len(s)), sep)

\* Array.prototype.slice(n)
Slice(a, n) == SubSeq(a, n + 1, Len(a))

\* Array.prototype.join
RECURSIVE Join(_, _)
Join(a, sep) ==
  IF a = <<>> THEN <<>>
  ELSE IF Len(a) = 1 THEN a[1]
  ELSE a[1] \o <<sep>> \o Join(Tail(a), sep)

\* An element of environments.items is an object; a reference to it is its
\* position in the array.  Refs(a) is the references to a's elements, in a's
\* order: what Array.prototype.filter selects from.
Refs(a) == [i \in 1..Len(a) |-> i]

---------------------------------------------------------------------------
(* The script's computations *)

\* Mutant of SearchName: keeps only the last segment (split('/').pop()).
SearchNameLastSegment(branchName) ==
  LET parts == Split(branchName, "/") IN parts[Len(parts)]

\* const searchName = branchName.includes('/')
\*   ? branchName.split('/').slice(1).join('/') : branchName
SearchName(branchName) ==
  IF Includes(branchName, <<"/">>)
  THEN Join(Slice(Split(branchName, "/"), 1), "/")
  ELSE branchName

\* env => env.name === searchName || env.sys.id === searchName
IsExactMatch(e, term) == e.name = term \/ e.sys.id = term

\* Mutant of IsPartialMatch: the containment tests ignore case.
IsPartialMatchIgnoreCase(e, term) ==
  LET isExactMatch == e.name = term \/ e.sys.id = term
      containsInId == Includes(ToLowerCase(e.sys.id), ToLowerCase(term))
      containsInName == Includes(ToLowerCase(e.name), ToLowerCase(term))
  IN  ~isExactMatch /\ (containsInId \/ containsInName)

\* Mutant of IsPartialMatch: the !isExactMatch test is left out.
IsPartialMatchNotExcluding(e, term) ==
  Includes(e.sys.id, term) \/ Includes(e.name, term)

\* The callback of the second filter.
IsPartialMatch(e, term) ==
  LET isExactMatch == e.name = term \/ e.sys.id = term
      containsInId == Includes(e.sys.id, term)
      containsInName == Includes(e.name, term)
  IN  ~isExactMatch /\ (containsInId \/ containsInName)

\* environments.items.filter(...): the references that pass, in order.
ExactMatches(its, term) ==
  SelectSeq(Refs(its), LAMBDA i : IsExactMatch(its[i], term))

PartialMatches(its, term) ==
  SelectSeq(Refs(its), LAMBDA i : IsPartialMatch(its[i], term))

\* Mutant of AllMatches: the two spreads in the other order.
AllMatchesPartialFirst(ex, pa) == pa \o ex

\* [...exactMatches, ...partialMatches]
AllMatches(ex, pa) == ex \o pa

\* exactMatches.includes(env) ? '(Exact Match)' : '(Partial Match)'
MatchType(ref, ex) ==
  IF \E k \in 1..Len(ex) : ex[k] = ref THEN "(Exact Match)" ELSE "(Partial Match)"

\* Mutant of UserText: the link object itself is interpolated, not its id.
UserTextOfObject(link) == <<"[object Object]">>

\* `${env.sys.createdBy.sys.id}` and `${env.sys.updatedBy.sys.id}`: the text
\* printed for a user reference, as the sequence of its parts.
UserText(link) == <<link.sys.id>>

\* new Date(t).toLocaleString()
ToLocaleString(t) == <<"local", t>>

\* The lines one iteration of allMatches.forEach prints; index is the
\* iteration's 0-based index, and every line is tagged with block = index + 1.
EnvLines(its, ex, ref, index) ==
  LET e == its[ref]
      b == index + 1
  IN  << [kind |-> "Environment", block |-> b, number |-> index + 1,
          matchType |-> MatchType(ref, ex)],
         [kind |-> "Environment ID", block |-> b, id |-> e.sys.id],
         [kind |-> "Environment Name", block |-> b, name |-> e.name] >>
      \o (IF e.sys.createdBy # None
          THEN << [kind |-> "Creator Information", block |-> b],
                  [kind |-> "Created by", block |-> b,
                   text |-> UserText(e.sys.createdBy[1])],
                  [kind |-> "Type", block |-> b,
                   linkType |-> e.sys.createdBy[1].sys.linkType] >>
          ELSE <<>>)
      \o (IF e.sys.createdAt # ""
          THEN << [kind |-> "Created at", block |-> b,
                   date |-> ToLocaleString(e.sys.createdAt)] >>
          ELSE <<>>)
      \o (IF e.sys.updatedAt # ""
          THEN << [kind |-> "Updated at", block |-> b,
                   date |-> ToLocaleString(e.sys.updatedAt)] >>
          ELSE <<>>)
      \o (IF e.sys.updatedBy # None
          THEN << [kind |-> "Updated by", block |-> b,
                   text |-> UserText(e.sys.updatedBy[1])] >>
          ELSE <<>>)

\* allMatches.forEach((env, index) => ...), from iteration k on.
RECURSIVE ForEachMatch(_, _, _, _)
ForEachMatch(its, ex, all, k) ==
  IF k > Len(all) THEN <<>>
  ELSE EnvLines(its, ex, all[k], k - 1) \o ForEachMatch(its, ex, all, k + 1)

\* Mutant of AvailableLines: the list is printed last to first.
AvailableLinesReversed(its) ==
  [i \in 1..Len(its) |->
     [kind |-> "-", id |-> its[Len(its) + 1 - i].sys.id,
      name |-> its[Len(its) + 1 - i].name]]

\* environments.items.forEach(env => console.log(`   - ${id} (${name})`))
AvailableLines(its) ==
  [i \in 1..Len(its) |-> [kind |-> "-", id |-> its[i].sys.id, name |-> its[i].name]]

\* What the script logs after the two filters.
ReportLines(its, term, ex, all) ==
  IF Len(all) > 0
  THEN <<[kind |-> "FOUND", count |-> Len(all)]>> \o ForEachMatch(its, ex, all, 1)
  ELSE << [kind |-> "No matching environment found"],
          [kind |-> "does not match", term |-> term],
          [kind |-> "Available environments"] >> \o AvailableLines(its)

\* Mutant of CatchLines: the status line is left out.
CatchLinesWithoutStatus(e) ==
  <<[kind |-> "Error occurred while querying Contentful"]>>
  \o (IF e.message # "" THEN <<[kind |-> "Message", message |-> e.message]>> ELSE <<>>)
  \o <<[kind |-> "Troubleshooting tips"]>>

\* The catch block's console.error lines.
CatchLines(e) ==
  <<[kind |-> "Error occurred while querying Contentful"]>>
  \o (IF e.message # "" THEN <<[kind |-> "Message", message |-> e.message]>> ELSE <<>>)
  \o (IF e.response # None /\ e.response[1].status # 0
      THEN <<[kind |-> "Status", status |-> e.response[1].status]>> ELSE <<>>)
  \o (IF e.response # None /\ e.response[1].statusText # ""
      THEN <<[kind |-> "Status Text", statusText |-> e.response[1].statusText]>>
      ELSE <<>>)
  \o <<[kind |-> "Troubleshooting tips"]>>

---------------------------------------------------------------------------
(* The run *)

Init ==
  /\ env \in [CONTENTFUL_SPACE_ID : EnvValues,
              CONTENTFUL_MANAGEMENT_TOKEN : EnvValues,
              BRANCH_NAME : BranchValues]
  /\ memberships \in MembershipAnswers
  /\ pc = "start"
  /\ exitCode = None
  /\ calls = <<>>
  /\ out = <<>>
  /\ err = <<>>
  /\ searchName = Undefined
  /\ items = <<>>
  /\ exactMatches = <<>>
  /\ partialMatches = <<>>
  /\ allMatches = <<>>
  /\ error = None

\* console.error('... is not set'); process.exit(1)
ExitNotSet(name) ==
  /\ err' = Append(err, [kind |-> "is not set", variable |-> name])
  /\ exitCode' = Some(1)
  /\ pc' = "exited"
  /\ UNCHANGED <<env, memberships, calls, out, searchName, items,
                 exactMatches, partialMatches, allMatches, error>>

MissingSpaceId ==
  /\ pc = "start"
  /\ Falsy(env.CONTENTFUL_SPACE_ID)
  /\ ExitNotSet("CONTENTFUL_SPACE_ID")

MissingAccessToken ==
  /\ pc = "start"
  /\ ~Falsy(env.CONTENTFUL_SPACE_ID)
  /\ Falsy(env.CONTENTFUL_MANAGEMENT_TOKEN)
  /\ ExitNotSet("CONTENTFUL_MANAGEMENT_TOKEN")

\* Mutant of MissingBranchName: BRANCH_NAME is tested before the other two.
MissingBranchNameTestedFirst ==
  /\ pc = "start"
  /\ Falsy(env.BRANCH_NAME)
  /\ ExitNotSet("BRANCH_NAME")

MissingBranchName ==
  /\ pc = "start"
  /\ ~Falsy(env.CONTENTFUL_SPACE_ID)
  /\ ~Falsy(env.CONTENTFUL_MANAGEMENT_TOKEN)
  /\ Falsy(env.BRANCH_NAME)
  /\ ExitNotSet("BRANCH_NAME")

\* All three variables are set: the script runs up to its first await,
\* client.getSpace(spaceId).
Start ==
  /\ pc = "start"
  /\ ~Falsy(env.CONTENTFUL_SPACE_ID)
  /\ ~Falsy(env.CONTENTFUL_MANAGEMENT_TOKEN)
  /\ ~Falsy(env.BRANCH_NAME)
  /\ searchName' = SearchName(env.BRANCH_NAME)
  /\ out' = out \o << [kind |-> "Checking", branch |-> env.BRANCH_NAME],
                      [kind |-> "Search term", term |-> searchName'],
                      [kind |-> "Space ID", space |-> env.CONTENTFUL_SPACE_ID] >>
  /\ calls' = calls \o <<"createClient", "getSpace">>
  /\ pc' = "awaitSpace"
  /\ UNCHANGED <<env, memberships, exitCode, err, items,
                 exactMatches, partialMatches, allMatches, error>>

\* catch (error) { ...; process.exit(1) }
Catch(e) ==
  /\ error' = Some(e)
  /\ err' = err \o CatchLines(e)
  /\ exitCode' = Some(1)
  /\ pc' = "exited"
  /\ UNCHANGED <<env, memberships, calls, out, searchName, items,
                 exactMatches, partialMatches, allMatches>>

\* getSpace resolves: the script runs up to its second await,
\* space.getEnvironments().
GetSpaceResolves ==
  /\ pc = "awaitSpace"
  /\ out' = Append(out, [kind |-> "Successfully connected"])
  /\ calls' = Append(calls, "getEnvironments")
  /\ pc' = "awaitEnvs"
  /\ UNCHANGED <<env, memberships, exitCode, err, searchName, items,
                 exactMatches, partialMatches, allMatches, error>>

GetSpaceRejects ==
  /\ pc = "awaitSpace"
  /\ \E e \in Errors : Catch(e)

\* Mutant of GetEnvironmentsResolves: before reporting, the script also asks
\* for the space memberships inside the same try block, so that a failure of
\* that call is caught like any other.
GetEnvironmentsResolvesThenLookup ==
  /\ pc = "awaitEnvs"
  /\ calls' = Append(calls, "getSpaceMemberships")
  /\ IF memberships.ok
     THEN /\ \E its \in ItemLists :
               /\ items' = its
               /\ exactMatches' = ExactMatches(its, searchName)
               /\ partialMatches' = PartialMatches(its, searchName)
               /\ allMatches' = AllMatches(exactMatches', partialMatches')
               /\ out' = out \o ReportLines(its, searchName, exactMatches', allMatches')
          /\ exitCode' = Some(0)
          /\ UNCHANGED <<err, error>>
     ELSE /\ error' = Some([message |-> "Forbidden", response |-> None])
          /\ err' = err \o CatchLines(error'[1])
          /\ exitCode' = Some(1)
          /\ UNCHANGED <<out, items, exactMatches, partialMatches, allMatches>>
  /\ pc' = "exited"
  /\ UNCHANGED <<env, memberships, searchName>>

\* getEnvironments resolves: the script runs to its end, and the process
\* exits with code 0.
GetEnvironmentsResolves ==
  /\ pc = "awaitEnvs"
  /\ \E its \in ItemLists :
       /\ items' = its
       /\ exactMatches' = ExactMatches(its, searchName)
       /\ partialMatches' = PartialMatches(its, searchName)
       /\ allMatches' = AllMatches(exactMatches', partialMatches')
       /\ out' = out \o ReportLines(its, searchName, exactMatches', allMatches')
  /\ exitCode' = Some(0)
  /\ pc' = "exited"
  /\ UNCHANGED <<env, memberships, calls, err, searchName, error>>

GetEnvironmentsRejects ==
  /\ pc = "awaitEnvs"
  /\ \E e \in Errors : Catch(e)

Next ==
  \/ MissingSpaceId
  \/ MissingAccessToken
  \/ MissingBranchName
  \/ Start
  \/ GetSpaceResolves
  \/ GetSpaceRejects
  \/ GetEnvironmentsResolves
  \/ GetEnvironmentsRejects

Spec == Init /\ [][Next]_vars

---------------------------------------------------------------------------
(* The claims *)

\* s contains t at some offset, character by character.
Contains(s, t) ==
  \E k \in 0..(Len(s) - Len(t)) : \A j \in 1..Len(t) : s[k + j] = t[j]

Range(f) == {f[i] : i \in DOMAIN f}

\* The lines of a stream that have the given kind, in order.
LinesOf(stream, kind) == SelectSeq(stream, LAMBDA l : l.kind = kind)

\* A required variable is missing when it is unset or empty.
Missing(v) == v = Undefined \/ Len(v) = 0

AnyMissing ==
  \/ Missing(env.CONTENTFUL_SPACE_ID)
  \/ Missing(env.CONTENTFUL_MANAGEMENT_TOKEN)
  \/ Missing(env.BRANCH_NAME)

\* Both upstream calls succeeded and the run has ended.
Completed == pc = "exited" /\ error = None /\ calls # <<>>

EqualsTerm(i) == items[i].sys.id = searchName \/ items[i].name = searchName

ContainsTerm(i) ==
  Contains(items[i].sys.id, searchName) \/ Contains(items[i].name, searchName)

Thm_C3_MissingVariableExits ==
  AnyMissing =>
    /\ calls = <<>>
    /\ \/ pc = "start" /\ exitCode = None
       \/ pc = "exited" /\ exitCode = Some(1)

\* Only the third variable, the branch name, is missing (set but empty).
Wit_C3_OnlyBranchMissing ==
  /\ pc = "exited"
  /\ ~Missing(env.CONTENTFUL_SPACE_ID)
  /\ ~Missing(env.CONTENTFUL_MANAGEMENT_TOKEN)
  /\ env.BRANCH_NAME = <<>>
  /\ exitCode = Some(1)

\* getSpace resolved in this run.
Connected == \E k \in 1..Len(out) : out[k].kind = "Successfully connected"

\* C4: when getSpace or getEnvironments fails, the run ends with exit code
\* 1, the failed call was made once and is the last upstream call, and the
\* error report has a Status line with the failure's status whenever the
\* failure carries one.
Thm_C4_UpstreamFailureExits ==
  error # None =>
    /\ pc = "exited"
    /\ exitCode = Some(1)
    /\ calls = IF Connected
               THEN <<"createClient", "getSpace", "getEnvironments">>
               ELSE <<"createClient", "getSpace">>
    /\ LinesOf(out, "FOUND") = <<>>
    /\ LinesOf(out, "No matching environment found") = <<>>
    /\ \A r \in Range(error[1].response) :
         r.status # 0 =>
           \E k \in 1..Len(err) : err[k].kind = "Status" /\ err[k].status = r.status

\* getEnvironments failed with a 401 response.
Wit_C4_ListEnvironments401 ==
  /\ error # None
  /\ Connected
  /\ error[1].response # None
  /\ error[1].response[1].status = 401
  /\ exitCode = Some(1)

\* C5: when the three variables are set and both upstream calls succeed, the
\* run ends with exit code 0 whether or not anything matches; when no fetched
\* environment's id or name contains the search term, the combined result is
\* empty and the report lists every fetched environment, in fetch order.
Thm_C5_SuccessExitsZero ==
  /\ pc = "awaitEnvs" => ~AnyMissing /\ error = None /\ exitCode = None
  /\ Completed =>
       /\ exitCode = Some(0)
       /\ (\A i \in 1..Len(items) : ~ContainsTerm(i)) =>
            /\ allMatches = <<>>
            /\ LinesOf(out, "FOUND") = <<>>
            /\ LinesOf(out, "-") =
                 [i \in 1..Len(items) |->
                    [kind |-> "-", id |-> items[i].sys.id, name |-> items[i].name]]

\* Two different environments were fetched and neither matches.
Wit_C5_NoMatchListsAll ==
  /\ Completed
  /\ Len(items) = 2
  /\ items[1].sys.id # items[2].sys.id
  /\ \A i \in 1..Len(items) : ~ContainsTerm(i)
  /\ Len(LinesOf(out, "-")) = 2
  /\ exitCode = Some(0)

UserLines ==
  SelectSeq(out, LAMBDA l : l.kind = "Created by" \/ l.kind = "Updated by")

\* The id of the user a user-reference line is about.
RawId(l) ==
  LET e == items[allMatches[l.block]]
  IN  IF l.kind = "Created by" THEN e.sys.createdBy[1].sys.id
      ELSE e.sys.updatedBy[1].sys.id

\* The three upstream calls the script makes.
PrimaryCalls == {"createClient", "getSpace", "getEnvironments"}

AnyWarning ==
  \/ \E k \in 1..Len(out) : out[k].kind = "Warning"
  \/ \E k \in 1..Len(err) : err[k].kind = "Warning"

\* C7 as stated: in a run that reports matches while "list space
\* memberships" fails, the failure is logged as a warning and the run ends
\* with exit code 0.
Orig_C7_LookupFailureWarns ==
  Completed /\ allMatches # <<>> /\ ~memberships.ok =>
    AnyWarning /\ exitCode = Some(0)

\* C7, amended: the run makes no user-detail lookup at all.  Its upstream
\* calls are createClient, getSpace and getEnvironments only and it logs no
\* warning; whatever "list space memberships" would answer, a run whose two
\* calls succeed ends with exit code 0 and prints the raw id for every user
\* reference.
Thm_C7_NoUserLookup ==
  /\ Range(calls) \subseteq PrimaryCalls
  /\ ~AnyWarning
  /\ pc = "awaitEnvs" => error = None
  /\ Completed =>
       /\ exitCode = Some(0)
       /\ \A k \in 1..Len(UserLines) : UserLines[k].text = <<RawId(UserLines[k])>>

\* Matches with user references were reported while the memberships
\* operation would have failed.
Wit_C7_ReportedWhileLookupDown ==
  /\ Completed
  /\ ~memberships.ok
  /\ Len(UserLines) > 0
  /\ exitCode = Some(0)

\* User-info formatting as the specification describes it: the text for user
\* id u given the answer m of the lookup.
FormatUserInfo(u, m) ==
  IF ~m.ok \/ ~\E r \in m.users : r.id = u
  THEN <<u>>
  ELSE LET r == CHOOSE x \in m.users : x.id = u
       IN  IF r.firstName # "" /\ r.lastName # "" /\ r.email # ""
           THEN <<r.firstName, " ", r.lastName, " (", r.email, ")">>
           ELSE IF r.email # "" THEN <<r.email>>
           ELSE <<u>>

\* C8 as stated: every printed user reference is formatted from the resolved
\* user: "First Last (email)", the email alone, or the raw id.
Orig_C8_FormattedUserInfo ==
  Completed =>
    \A k \in 1..Len(UserLines) :
       UserLines[k].text = FormatUserInfo(RawId(UserLines[k]), memberships)

\* C8, amended: every printed user reference (created-by, updated-by) is the
\* raw id, also for a user the space memberships know by name and email; one
\* created-by line is printed per match that has a creator, one updated-by
\* line per match that has an updater.
Thm_C8_RawUserIds ==
  Completed =>
    /\ \A k \in 1..Len(UserLines) : UserLines[k].text = <<RawId(UserLines[k])>>
    /\ \A b \in 1..Len(allMatches) :
         /\ Len(SelectSeq(out, LAMBDA l : l.kind = "Created by" /\ l.block = b))
              = Len(items[allMatches[b]].sys.createdBy)
         /\ Len(SelectSeq(out, LAMBDA l : l.kind = "Updated by" /\ l.block = b))
              = Len(items[allMatches[b]].sys.updatedBy)

\* A reference to user u1 was printed as "u1" although the memberships know
\* u1 as Ada Lovelace.
Wit_C8_NamedUserPrintedAsId ==
  /\ Completed
  /\ memberships.ok
  /\ \E r \in memberships.users : r.id = "u1" /\ r.firstName = "Ada"
  /\ \E k \in 1..Len(UserLines) :
       UserLines[k].kind = "Created by" /\ UserLines[k].text = <<"u1">>

\* The names of the required variables that are missing.
MissingNames ==
  {n \in {"CONTENTFUL_SPACE_ID", "CONTENTFUL_MANAGEMENT_TOKEN", "BRANCH_NAME"} :
     Missing(env[n])}

NotSetNames == {l.variable : l \in Range(LinesOf(err, "is not set"))}

\* C9 as stated: when the run has exited for missing configuration, it has
\* printed an error naming each missing variable.
Orig_C9_EachMissingNamed ==
  pc = "exited" /\ AnyMissing => MissingNames \subseteq NotSetNames

\* C9, amended: the run prints exactly one error, naming the first missing
\* variable in the order space id, access token, branch name, and exits
\* with code 1; further missing variables are not reported.
Thm_C9_FirstMissingNamed ==
  pc = "exited" /\ AnyMissing =>
    /\ exitCode = Some(1)
    /\ out = <<>>
    /\ err = << [kind |-> "is not set",
                 variable |->
                   IF Missing(env.CONTENTFUL_SPACE_ID) THEN "CONTENTFUL_SPACE_ID"
                   ELSE IF Missing(env.CONTENTFUL_MANAGEMENT_TOKEN)
                        THEN "CONTENTFUL_MANAGEMENT_TOKEN"
                   ELSE "BRANCH_NAME"] >>

\* The access token and the branch name are both missing; only the token is
\* named.
Wit_C9_TwoMissingOneNamed ==
  /\ pc = "exited"
  /\ MissingNames = {"CONTENTFUL_MANAGEMENT_TOKEN", "BRANCH_NAME"}
  /\ NotSetNames = {"CONTENTFUL_MANAGEMENT_TOKEN"}

====
